---- MODULE Spec2Model ----
(***************************************************************************)
(* Model of the SGX extension verifier of steward (src/ext/sgx/mod.rs)     *)
(* and of the SGX Attributes ABI type (src/ext/sgx/types/attr.rs).         *)
(*                                                                         *)
(* Three specifications share the module:                                  *)
(*   Spec        one call of Sgx::verify, statement by statement,          *)
(*               including the is_trusted walk;                            *)
(*   SpecAttr    the value operations of Attributes (new, to_vec, !, &,    *)
(*               |, ^);                                                    *)
(*   SpecLayout  the layout of a #[repr(C, packed(n))] declaration and the *)
(*               three tests the testaso! invocation expands to.           *)
(***************************************************************************)
EXTENDS Integers, Sequences, FiniteSets, TLC

VARIABLES
    \* ---- Sgx::verify ----
    root,       \* Sgx::ROOT decoded: the PkiPath, a sequence of certificates
    cri,        \* the CertReqInfo argument
    ext,        \* the Extension argument
    dbg,        \* the dbg argument
    pc,         \* position of the call in verify / is_trusted
    evidence,   \* local `evidence` of verify
    signer,     \* local `signer` of is_trusted (an Option)
    idx,        \* position of the for loop of is_trusted in the chained iterator
    pck,        \* local `pck` of verify (the Ok value of is_trusted)
    quote,      \* local `quote` of verify
    signature,  \* local `signature` of verify
    result,     \* what the call handed to its caller
    evaluated,  \* the checks of verify executed so far, in order
    walkLog,    \* the values `signer` took after each loop iteration
    \* ---- Attributes ----
    a, b,       \* two Attributes values
    op,         \* the last operation applied
    res,        \* its Attributes result
    nots,       \* how many times ! has been applied in a row
    complement, \* which complement the ! of the flagset dependency takes
    addr,       \* where the value to_vec was called on is stored
    bytes,      \* the Vec<u8> of the last to_vec: per byte, the values it can have
    \* ---- layout ----
    decl,       \* a struct declaration: packing and field order
    tests       \* outcome of the tests align(), size(), offsets()

verifyVars == <<root, cri, ext, dbg, pc, evidence, signer, idx, pck, quote,
                signature, result, evaluated, walkLog>>
attrVars   == <<a, b, op, res, nots, complement, addr, bytes>>
layoutVars == <<decl, tests>>
vars       == <<verifyVars, attrVars, layoutVars>>

-----------------------------------------------------------------------------
(* Bounds *)

\* longest root-of-trust path considered
MaxPath == 2

\* flags and xfrm values are drawn from 0..MaxFlags and 0..MaxXfrm, and from a
\* few values with high bits
MaxFlags == 7
MaxXfrm == 3

\* longest run of consecutive negations
MaxNots == 2

-----------------------------------------------------------------------------
(* Certificates, quotes, requests *)

Keys == {"k1", "k2"}

\* AlgorithmIdentifier { oid, parameters }
Algs == { [oid |-> "ecPublicKey", parameters |-> "p256"],
          [oid |-> "ecPublicKey", parameters |-> "p384"],
          [oid |-> "rsaEncryption", parameters |-> "null"] }

PathAlg == [oid |-> "ecPublicKey", parameters |-> "p256"]

\* TbsCertificate reduced to subject_public_key_info { algorithm, key }
Tbs == [algorithm : Algs, key : Keys]

\* Certificate: the signed body and the key its signature was made with
Certificate == [tbs_certificate : Tbs, signed_by : Keys]

\* certificates that can stand in the bundled root path
PathCertificate == {c \in Certificate : c.tbs_certificate.algorithm = PathAlg}

PkiPath == UNION {[1..n -> PathCertificate] : n \in 1..MaxPath}

Bodies == {"body", "body_flipped"}

NoSig == [encodable |-> FALSE, over |-> "body", by |-> "k1"]

\* report_sig of the quote: either not DER-encodable or an (r, s) pair made
\* over some body with some key
ReportSig == {NoSig} \cup [encodable : {TRUE}, over : Bodies, by : Keys]

NoQuote == [wf |-> FALSE, body |-> "body", report_sig |-> NoSig]

\* the opaque quote bytes: malformed, or a body and its signature data
QuoteBytes == {NoQuote} \cup [wf : {TRUE}, body : Bodies, report_sig : ReportSig]

NoCert == [tbs_certificate |-> [algorithm |-> PathAlg, key |-> "k1"], signed_by |-> "k1"]

NoEvidence == [wf |-> FALSE, pck |-> NoCert, quote |-> NoQuote]

\* ext.extn_value: malformed DER, or an Evidence { pck, quote }
ExtnValue == {NoEvidence} \cup [wf : {TRUE}, pck : Certificate, quote : QuoteBytes]

Extension == [critical : BOOLEAN, extn_value : ExtnValue]

CertReqInfo == [algorithm : Algs]

\* Option<&TbsCertificate>
None == [some |-> FALSE, val |-> NoCert.tbs_certificate]
Some(t) == [some |-> TRUE, val |-> t]

\* Result<bool>
NoResult == [kind |-> "none", val |-> "none"]
Ok(v) == [kind |-> "ok", val |-> v]
Err(k) == [kind |-> "err", val |-> k]

ErrorKinds == {"ProtocolViolation", "DecodeError", "UntrustedSigner",
               "AlgorithmMismatch", "QuoteDecodeError", "SignatureEncodeError",
               "InvalidSignature"}

-----------------------------------------------------------------------------
(* crate::crypto, as the specification describes it *)

\* TbsCertificate::verify_crt: the signature of cert verifies under the key of
\* the issuer body s; on success the result is cert's own signed body
VerifyCrt(s, cert) ==
    IF cert.signed_by = s.key THEN Some(cert.tbs_certificate) ELSE None

\* TbsCertificate::verify_raw with ECDSA_WITH_SHA_256: the signature was made
\* over exactly this body with the key of the signer body s
VerifyRaw(s, body, sig) == sig.over = body /\ sig.by = s.key

-----------------------------------------------------------------------------
(* Sgx::is_trusted *)

\* path.0.iter().chain([pck].into_iter())
Chain(path, cert) == Append(path, cert)

\* the loop body with a step that resumes after a failure (mutant)
WalkStepResume(s, cert) ==
    IF s.some THEN VerifyCrt(s.val, cert) ELSE Some(cert.tbs_certificate)

\* signer.and_then(|s| s.verify_crt(cert).ok())
WalkStep(s, cert) ==
    IF s.some THEN VerifyCrt(s.val, cert) ELSE None

\* the final test without the presence requirement (mutant)
WalkAcceptsAbsent(s, cert) == TRUE

\* if let Some(signer) = signer { if signer == &pck.tbs_certificate {..} }
WalkAccepts(s, cert) == s.some /\ s.val = cert.tbs_certificate

-----------------------------------------------------------------------------
(* Sgx::verify *)

\* the criticality test inverted (mutant)
IsCriticalInverted(e) == ~e.critical

\* ext.critical
IsCritical(e) == e.critical

\* comparison of the OID alone (mutant)
AlgorithmDiffersOidOnly(x, y) == x.oid # y.oid

\* cri.public_key.algorithm != pck.subject_public_key_info.algorithm
AlgorithmDiffers(x, y) == x # y

-----------------------------------------------------------------------------
(* Variables of the other specifications, at rest *)

AttrIdle ==
    /\ a = [flags |-> {}, xfrm |-> {}]
    /\ b = [flags |-> {}, xfrm |-> {}]
    /\ op = "none"
    /\ res = [flags |-> {}, xfrm |-> {}]
    /\ nots = 0
    /\ complement = "defined"
    /\ addr = 0
    /\ bytes = <<>>

LayoutIdle ==
    /\ decl = [pack |-> 4, fields |-> <<>>]
    /\ tests = [align |-> "unrun", size |-> "unrun", offsets |-> "unrun"]

Init ==
    /\ root \in PkiPath
    /\ cri \in CertReqInfo
    /\ ext \in Extension
    /\ dbg \in BOOLEAN
    /\ pc = "critical"
    /\ evidence = NoEvidence
    /\ signer = None
    /\ idx = 0
    /\ pck = None
    /\ quote = NoQuote
    /\ signature = NoSig
    /\ result = NoResult
    /\ evaluated = <<>>
    /\ walkLog = <<>>
    /\ AttrIdle
    /\ LayoutIdle

inputsUnchanged == UNCHANGED <<root, cri, ext, dbg, attrVars, layoutVars>>

Return(r) == result' = r /\ pc' = "returned"

\* if ext.critical { return Err(..) }
CheckCritical ==
    /\ pc = "critical"
    /\ evaluated' = Append(evaluated, "criticality")
    /\ IF IsCritical(ext)
         THEN Return(Err("ProtocolViolation"))
         ELSE pc' = "decode" /\ UNCHANGED result
    /\ UNCHANGED <<evidence, signer, idx, pck, quote, signature, walkLog>>
    /\ inputsUnchanged

\* let evidence = Evidence::from_der(ext.extn_value)?;
DecodeEvidence ==
    /\ pc = "decode"
    /\ evaluated' = Append(evaluated, "decode")
    /\ IF ext.extn_value.wf
         THEN evidence' = ext.extn_value /\ pc' = "is_trusted" /\ UNCHANGED result
         ELSE Return(Err("DecodeError")) /\ UNCHANGED evidence
    /\ UNCHANGED <<signer, idx, pck, quote, signature, walkLog>>
    /\ inputsUnchanged

\* let mut signer = Some(&path.0[0].tbs_certificate);
WalkBegin ==
    /\ pc = "is_trusted"
    /\ evaluated' = Append(evaluated, "trust")
    /\ signer' = Some(root[1].tbs_certificate)
    /\ idx' = 1
    /\ pc' = "walk"
    /\ UNCHANGED <<evidence, pck, quote, signature, result, walkLog>>
    /\ inputsUnchanged

\* one iteration of: for cert in path.0.iter().chain([pck]) { signer = .. }
WalkNext ==
    /\ pc = "walk"
    /\ idx <= Len(Chain(root, evidence.pck))
    /\ signer' = WalkStep(signer, Chain(root, evidence.pck)[idx])
    /\ walkLog' = Append(walkLog, signer')
    /\ idx' = idx + 1
    /\ UNCHANGED <<pc, evidence, pck, quote, signature, result, evaluated>>
    /\ inputsUnchanged

\* the end of is_trusted and the `?` of: let pck = self.is_trusted(..)?;
WalkEnd ==
    /\ pc = "walk"
    /\ idx > Len(Chain(root, evidence.pck))
    /\ IF WalkAccepts(signer, evidence.pck)
         THEN pck' = Some(evidence.pck.tbs_certificate) /\ pc' = "algorithm"
              /\ UNCHANGED result
         ELSE Return(Err("UntrustedSigner")) /\ UNCHANGED pck
    /\ UNCHANGED <<evidence, signer, idx, quote, signature, evaluated, walkLog>>
    /\ inputsUnchanged

\* if cri.public_key.algorithm != pck.subject_public_key_info.algorithm {..}
CheckAlgorithm ==
    /\ pc = "algorithm"
    /\ evaluated' = Append(evaluated, "algorithm")
    /\ IF AlgorithmDiffers(cri.algorithm, pck.val.algorithm)
         THEN Return(Err("AlgorithmMismatch"))
         ELSE pc' = "quote" /\ UNCHANGED result
    /\ UNCHANGED <<evidence, signer, idx, pck, quote, signature, walkLog>>
    /\ inputsUnchanged

\* let quote = Quote::try_from(evidence.quote).context(..)?;
ParseQuote ==
    /\ pc = "quote"
    /\ evaluated' = Append(evaluated, "quote_parse")
    /\ IF evidence.quote.wf
         THEN quote' = evidence.quote /\ pc' = "signature" /\ UNCHANGED result
         ELSE Return(Err("QuoteDecodeError")) /\ UNCHANGED quote
    /\ UNCHANGED <<evidence, signer, idx, pck, signature, walkLog>>
    /\ inputsUnchanged

\* let signature = quote.sigdata().report_sig().to_der().context(..)?;
EncodeSignature ==
    /\ pc = "signature"
    /\ evaluated' = Append(evaluated, "sig_encode")
    /\ IF quote.report_sig.encodable
         THEN signature' = quote.report_sig /\ pc' = "verify_raw"
              /\ UNCHANGED result
         ELSE Return(Err("SignatureEncodeError")) /\ UNCHANGED signature
    /\ UNCHANGED <<evidence, signer, idx, pck, quote, walkLog>>
    /\ inputsUnchanged

\* pck.verify_raw(&body, ECDSA_WITH_SHA_256, &signature).unwrap();
\* unwrap of an Err panics: the call hands no value to its caller
VerifySignature ==
    /\ pc = "verify_raw"
    /\ evaluated' = Append(evaluated, "sig_verify")
    /\ IF VerifyRaw(pck.val, quote.body, signature)
         THEN pc' = "report"
         ELSE pc' = "panicked"
    /\ UNCHANGED <<evidence, signer, idx, pck, quote, signature, result, walkLog>>
    /\ inputsUnchanged

\* if !dbg {}  Ok(true)
ReturnOk ==
    /\ pc = "report"
    /\ Return(Ok("true"))
    /\ UNCHANGED <<evidence, signer, idx, pck, quote, signature, evaluated, walkLog>>
    /\ inputsUnchanged

Next ==
    \/ CheckCritical
    \/ DecodeEvidence
    \/ WalkBegin
    \/ WalkNext
    \/ WalkEnd
    \/ CheckAlgorithm
    \/ ParseQuote
    \/ EncodeSignature
    \/ VerifySignature
    \/ ReturnOk

Spec == Init /\ [][Next]_vars

-----------------------------------------------------------------------------
(* What the inputs of the call are, stated without running it *)

\* the certificates the walk of is_trusted visits, for the call's inputs
InputChain == Chain(root, ext.extn_value.pck)

\* the body expected to have issued the i-th certificate of the chain
Issuer(i) ==
    IF i = 1 THEN root[1].tbs_certificate ELSE InputChain[i - 1].tbs_certificate

\* the signature of the i-th certificate verifies under its expected issuer
LinkOk(i) == InputChain[i].signed_by = Issuer(i).key

AllLinksOk == \A i \in 1..Len(InputChain) : LinkOk(i)

AlgorithmsEqual ==
    /\ cri.algorithm.oid = ext.extn_value.pck.tbs_certificate.algorithm.oid
    /\ cri.algorithm.parameters =
           ext.extn_value.pck.tbs_certificate.algorithm.parameters

SignatureValid ==
    /\ ext.extn_value.quote.report_sig.over = ext.extn_value.quote.body
    /\ ext.extn_value.quote.report_sig.by = ext.extn_value.pck.tbs_certificate.key

Ended == pc \in {"returned", "panicked"}

\* the call went through the whole walk of is_trusted
WalkOver == pc # "walk" /\ Len(walkLog) = Len(root) + 1

-----------------------------------------------------------------------------
(* C1 *)

\* C1: verify called with a critical extension returns an error of kind
\* ProtocolViolation whatever the payload, the request and dbg are, and no
\* decoding, trust-chain, algorithm or signature step runs before it.
C1_CriticalAlwaysRejected ==
    ext.critical =>
        /\ pc \in {"critical", "returned"}
        /\ pc = "returned" =>
              result = Err("ProtocolViolation") /\ evaluated = <<"criticality">>
        /\ evidence = NoEvidence
        /\ walkLog = <<>>
        /\ ~pck.some
        /\ quote = NoQuote
        /\ signature = NoSig

\* a critical extension whose payload would pass every other check was rejected
C1_Witness ==
    /\ ext.critical
    /\ pc = "returned"
    /\ ext.extn_value.wf
    /\ AllLinksOk
    /\ AlgorithmsEqual
    /\ ext.extn_value.quote.wf
    /\ ext.extn_value.quote.report_sig.encodable
    /\ SignatureValid

-----------------------------------------------------------------------------
(* C2 *)

\* C2: is_trusted returns Ok(pck's signed body, unchanged) exactly when every
\* link of [root path..., pck] validates under the body before it (the first
\* under the root's own body) and the final expected issuer is pck's body; once
\* a link fails the expected issuer is absent after that step and after every
\* later step, whatever those steps would verify, and the call fails with
\* UntrustedSigner with no partial result.
C2_IsTrustedIffEveryLink ==
    /\ \A i \in 1..Len(walkLog) :
          /\ walkLog[i].some <=> (\A j \in 1..i : LinkOk(j))
          /\ walkLog[i].some => walkLog[i].val = InputChain[i].tbs_certificate
    /\ pck.some => pck.val = ext.extn_value.pck.tbs_certificate
    /\ WalkOver =>
          /\ pck.some <=>
                (AllLinksOk /\
                 walkLog[Len(walkLog)] = Some(ext.extn_value.pck.tbs_certificate))
          /\ ~pck.some => pc = "returned" /\ result = Err("UntrustedSigner")
    /\ ~WalkOver => ~pck.some

\* a link failed, a later link verifies on its own, and the call failed with
\* UntrustedSigner
C2_Witness ==
    /\ WalkOver
    /\ result = Err("UntrustedSigner")
    /\ \E i \in 1..Len(InputChain) : \E j \in 1..Len(InputChain) :
          i < j /\ ~LinkOk(i) /\ LinkOk(j) /\ ~walkLog[j].some

-----------------------------------------------------------------------------
(* C3 *)

\* C3: with a non-critical extension, decodable evidence and a trusted signer,
\* a request whose algorithm identifier (OID and parameters) differs from the
\* signer's makes verify fail with AlgorithmMismatch, a valid quote signature
\* notwithstanding; verify succeeds only when the two identifiers are equal.
C3_AlgorithmBinding ==
    /\ (Ended /\ ~ext.critical /\ ext.extn_value.wf /\ AllLinksOk
          /\ ~AlgorithmsEqual)
         => (pc = "returned" /\ result = Err("AlgorithmMismatch"))
    /\ result = Ok("true") => AlgorithmsEqual

\* same OID, different parameters, a valid quote signature: rejected
C3_Witness ==
    /\ pc = "returned"
    /\ result = Err("AlgorithmMismatch")
    /\ cri.algorithm.oid = ext.extn_value.pck.tbs_certificate.algorithm.oid
    /\ ext.extn_value.quote.wf
    /\ ext.extn_value.quote.report_sig.encodable
    /\ SignatureValid

-----------------------------------------------------------------------------
(* C4 *)

EarlierStepsPass ==
    /\ ~ext.critical
    /\ ext.extn_value.wf
    /\ AllLinksOk
    /\ AlgorithmsEqual
    /\ ext.extn_value.quote.wf
    /\ ext.extn_value.quote.report_sig.encodable

\* C4: when every earlier step passes and the signature primitive rejects the
\* body, verify returns Err of kind InvalidSignature to its caller (a value,
\* not an abort); when the signature is valid it returns success.
C4_InvalidSignatureIsReturned ==
    (EarlierStepsPass /\ pc \notin {"critical", "decode", "is_trusted", "walk",
                                    "algorithm", "quote", "signature",
                                    "verify_raw", "report"})
      => /\ pc = "returned"
         /\ IF SignatureValid
              THEN result = Ok("true")
              ELSE result = Err("InvalidSignature")

-----------------------------------------------------------------------------
(* C5 *)

\* C5: a call that returns yields Ok(true) or an error, never Ok(false), and
\* yields Ok(true) only if the extension is non-critical, the payload decoded,
\* the signer passed is_trusted, the algorithm identifiers are equal, the quote
\* parsed, the signature was re-encoded and the body verified under the
\* signer's key.
C5_OkTrueOnlyWhenAllChecksPass ==
    /\ pc = "returned" =>
          \/ result = Ok("true")
          \/ result.kind = "err" /\ result.val \in ErrorKinds
    /\ result # Ok("false")
    /\ result.kind = "ok" => (pc = "returned" /\ EarlierStepsPass /\ SignatureValid)

\* a call returned Ok(true)
C5_Witness ==
    /\ pc = "returned"
    /\ result = Ok("true")
    /\ Len(root) = MaxPath

-----------------------------------------------------------------------------
(* C9 *)

Order == <<"criticality", "decode", "trust", "algorithm", "quote_parse",
           "sig_encode", "sig_verify">>

\* whether a check passes on the call's inputs
Passes(c) ==
    CASE c = "criticality" -> ~ext.critical
      [] c = "decode"      -> ext.extn_value.wf
      [] c = "trust"       -> AllLinksOk
      [] c = "algorithm"   -> AlgorithmsEqual
      [] c = "quote_parse" -> ext.extn_value.quote.wf
      [] c = "sig_encode"  -> ext.extn_value.quote.report_sig.encodable
      [] c = "sig_verify"  -> SignatureValid

KindOf(c) ==
    CASE c = "criticality" -> "ProtocolViolation"
      [] c = "decode"      -> "DecodeError"
      [] c = "trust"       -> "UntrustedSigner"
      [] c = "algorithm"   -> "AlgorithmMismatch"
      [] c = "quote_parse" -> "QuoteDecodeError"
      [] c = "sig_encode"  -> "SignatureEncodeError"
      [] c = "sig_verify"  -> "InvalidSignature"

\* the checks run in the fixed order, each only after all before it passed
ChecksInOrder ==
    /\ Len(evaluated) <= Len(Order)
    /\ \A i \in 1..Len(evaluated) :
          /\ evaluated[i] = Order[i]
          /\ \A j \in 1..(i - 1) : Passes(Order[j])

\* C9: verify runs criticality, decode, trust chain, algorithm binding, quote
\* parse, signature encode, signature verify in this order and stops at the
\* first that fails: the reported error kind is that of the earliest failing
\* check and no later check is evaluated.
C9_EarliestFailingCheckReported ==
    /\ ChecksInOrder
    /\ Ended =>
          IF \A i \in 1..Len(Order) : Passes(Order[i])
            THEN evaluated = Order /\ result = Ok("true")
            ELSE /\ Len(evaluated) >= 1
                 /\ ~Passes(Order[Len(evaluated)])
                 /\ result = Err(KindOf(Order[Len(evaluated)]))

-----------------------------------------------------------------------------
(* Layout of #[repr(C, packed(n))] structures and the testaso! tests *)

VerifyIdle ==
    /\ root = <<NoCert>>
    /\ cri = [algorithm |-> PathAlg]
    /\ ext = [critical |-> FALSE, extn_value |-> NoEvidence]
    /\ dbg = FALSE
    /\ pc = "idle"
    /\ evidence = NoEvidence
    /\ signer = None
    /\ idx = 0
    /\ pck = None
    /\ quote = NoQuote
    /\ signature = NoSig
    /\ result = NoResult
    /\ evaluated = <<>>
    /\ walkLog = <<>>

\* size and alignment of the field types on x86_64
U64 == [size |-> 8, align |-> 8]
U32 == [size |-> 4, align |-> 4]

Field(n, t) == [name |-> n, size |-> t.size, align |-> t.align]

\* #[repr(C, packed(4))] struct Attributes { flags: FlagSet<Flags>, xfrm: XfrmWrapper }
\* FlagSet<Flags> and XfrmWrapper(FlagSet<Xfrm>) are both one u64
AttributesDecl ==
    [pack |-> 4, fields |-> <<Field("flags", U64), Field("xfrm", U64)>>]

Min(x, y) == IF x <= y THEN x ELSE y
Max(x, y) == IF x >= y THEN x ELSE y
RoundUp(n, al) == ((n + al - 1) \div al) * al

\* alignment of a field with the packed attribute ignored (mutant)
FieldAlignUnpacked(d, i) == d.fields[i].align

\* alignment of the i-th field: its natural alignment capped by packed(n)
FieldAlign(d, i) == Min(d.fields[i].align, d.pack)

RECURSIVE OffsetOf(_, _)
\* offset_of: repr(C) places the fields in declaration order, each at the
\* next multiple of its alignment
OffsetOf(d, i) ==
    IF i = 1 THEN 0
    ELSE RoundUp(OffsetOf(d, i - 1) + d.fields[i - 1].size, FieldAlign(d, i))

RECURSIVE AlignUpTo(_, _)
AlignUpTo(d, i) ==
    IF i = 0 THEN 1 ELSE Max(AlignUpTo(d, i - 1), FieldAlign(d, i))

\* align_of
AlignOf(d) == AlignUpTo(d, Len(d.fields))

\* size_of
SizeOf(d) ==
    IF Len(d.fields) = 0 THEN 0
    ELSE RoundUp(OffsetOf(d, Len(d.fields)) + d.fields[Len(d.fields)].size,
                 AlignOf(d))

\* memoffset::offset_of!(name, field)
OffsetOfField(d, n) ==
    OffsetOf(d, CHOOSE i \in 1..Len(d.fields) : d.fields[i].name = n)

\* testaso! { struct Attributes: 4, 16 => {} }: no field is listed
Testaso == [align |-> 4, size |-> 16, fields |-> <<>>]

PackDom == {1, 2, 4, 8}

\* the declaration and the structural changes of it considered: another
\* packing, the fields in the other order, a field of another width
DeclDom ==
    { [pack |-> p, fields |-> <<Field(n[1], t1), Field(n[2], t2)>>] :
        p \in PackDom, n \in {<<"flags", "xfrm">>, <<"xfrm", "flags">>},
        t1 \in {U32, U64}, t2 \in {U32, U64} }

InitLayout ==
    /\ decl \in DeclDom
    /\ tests = [align |-> "unrun", size |-> "unrun", offsets |-> "unrun"]
    /\ VerifyIdle
    /\ AttrIdle

Verdict(ok) == IF ok THEN "pass" ELSE "fail"

\* fn align(): assert_eq!(align_of::<$name>(), $align)
RunAlign ==
    /\ tests.align = "unrun"
    /\ tests' = [tests EXCEPT !.align = Verdict(AlignOf(decl) = Testaso.align)]
    /\ UNCHANGED <<decl, verifyVars, attrVars>>

\* fn size(): assert_eq!(size_of::<$name>(), $size)
RunSize ==
    /\ tests.size = "unrun"
    /\ tests' = [tests EXCEPT !.size = Verdict(SizeOf(decl) = Testaso.size)]
    /\ UNCHANGED <<decl, verifyVars, attrVars>>

\* fn offsets(): one assert_eq!(offset_of!($name, $field), $offset) per listed field
RunOffsets ==
    /\ tests.offsets = "unrun"
    /\ tests' = [tests EXCEPT !.offsets =
                   Verdict(\A i \in 1..Len(Testaso.fields) :
                             OffsetOfField(decl, Testaso.fields[i].name)
                               = Testaso.fields[i].offset)]
    /\ UNCHANGED <<decl, verifyVars, attrVars>>

NextLayout ==
    \/ RunAlign
    \/ RunSize
    \/ RunOffsets

SpecLayout == InitLayout /\ [][NextLayout]_vars

AllTestsRun ==
    tests.align # "unrun" /\ tests.size # "unrun" /\ tests.offsets # "unrun"

\* where the SGX reference puts the fields of ATTRIBUTES
HardwareOffset(n) == IF n = "flags" THEN 0 ELSE 8

-----------------------------------------------------------------------------
(* C7 *)

\* C7: Attributes is 16 bytes in size and 4 in alignment, flags occupies bytes
\* 0..8 and xfrm bytes 8..16, and there is no padding.
C7_AttributesLayout ==
    decl = AttributesDecl =>
        /\ SizeOf(decl) = 16
        /\ AlignOf(decl) = 4
        /\ OffsetOfField(decl, "flags") = 0
        /\ OffsetOfField(decl, "xfrm") = 8
        /\ OffsetOf(decl, 2) = OffsetOf(decl, 1) + decl.fields[1].size
        /\ SizeOf(decl) = OffsetOf(decl, 2) + decl.fields[2].size
        /\ tests.align # "fail"
        /\ tests.size # "fail"

\* the declaration as written, with its three tests run
C7_Witness ==
    /\ decl = AttributesDecl
    /\ tests = [align |-> "pass", size |-> "pass", offsets |-> "pass"]

-----------------------------------------------------------------------------
(* C10 *)

\* C10: the layout test of Attributes asserts size, alignment and the offset
\* of flags and of xfrm against literals, so a structural change that keeps
\* size and alignment but moves a field makes a layout test fail.
C10_MovedFieldFailsALayoutTest ==
    (/\ AllTestsRun
     /\ SizeOf(decl) = SizeOf(AttributesDecl)
     /\ AlignOf(decl) = AlignOf(AttributesDecl)
     /\ \E i \in 1..Len(decl.fields) :
           OffsetOf(decl, i) # HardwareOffset(decl.fields[i].name))
      => (tests.align = "fail" \/ tests.size = "fail" \/ tests.offsets = "fail")

-----------------------------------------------------------------------------
(* Attributes: the flag sets, the bitwise operators, to_vec *)

\* a u64 bit pattern is the set of the positions of its 1 bits
U64Bits == 0..63

RECURSIVE Pow2(_)
Pow2(n) == IF n = 0 THEN 1 ELSE 2 * Pow2(n - 1)

\* flags! enum Flags: INIT, DEBUG, BIT64, PROV_KEY, EINIT_KEY, CET, KSS
FlagsBits == {0, 1, 2, 4, 5, 6, 7}

\* flags! enum Xfrm: X87, SSE, AVX, BNDREG, BNDCSR, OPMASK, ZMM_HI256,
\* HI16_ZMM, PKRU, CETU, CETS
XfrmBits == {0, 1, 2, 3, 4, 5, 6, 7, 9, 11, 12}

\* the bit pattern of an integer literal below 2^16
PatternOf(v) == {i \in 0..15 : (v \div Pow2(i)) % 2 = 1}

\* FlagSet & FlagSet: bits0 & bits1
BitAnd(x, y) == x \cap y

\* FlagSet | FlagSet: bits0 | bits1
BitOr(x, y) == x \cup y

\* FlagSet ^ FlagSet: bits0 ^ bits1
BitXor(x, y) == (x \ y) \cup (y \ x)

\* the two complements a flag-set library can take for !set
\*   "all"      !bits: every bit of the underlying u64 is inverted
\*   "defined"  !bits & full: the inversion is kept within the defined flags
\* FlagSet is a dependency of the repository; attr.rs only calls its !, and
\* the repository does not fix which of the two it is
Complements == {"all", "defined"}

\* !FlagSet, for a flag type whose defined bits are `defined`
BitNot(x, defined) ==
    IF complement = "all" THEN U64Bits \ x ELSE defined \ x

\* a FlagSet built from defined flags only
OnlyBits(x, defined) == x \subseteq defined

\* Flags::default() = BIT64, XfrmWrapper::default() = X87 | SSE
FlagsDefault == {2}
XfrmDefault == {0, 1}

FlagsDom ==
    {PatternOf(v) : v \in {w \in 0..MaxFlags : OnlyBits(PatternOf(w), FlagsBits)}}
      \cup {FlagsBits}
XfrmDom ==
    {PatternOf(v) : v \in {w \in 0..MaxXfrm : OnlyBits(PatternOf(w), XfrmBits)}}
      \cup {XfrmBits, {0, 9}, {11, 12}}

\* patterns with a bit no flag defines (FlagSet::new_unchecked, or the result
\* of a ! that inverts every bit)
FlagsUndefinedDom == {{3}, {2, 3}}
XfrmUndefinedDom == {{0, 1, 8}}

\* Attributes::new(flags, xfrm)
New(f, x) == [flags |-> f, xfrm |-> x]

\* xor with the xfrm of the result taken from the flags of the right operand
\* (mutant)
AttrXorCrossed(x, y) ==
    [flags |-> BitXor(x.flags, y.flags), xfrm |-> BitXor(x.xfrm, y.flags)]

\* impl Not for Attributes
AttrNot(x) ==
    [flags |-> BitNot(x.flags, FlagsBits), xfrm |-> BitNot(x.xfrm, XfrmBits)]

\* impl BitAnd for Attributes
AttrAnd(x, y) ==
    [flags |-> BitAnd(x.flags, y.flags), xfrm |-> BitAnd(x.xfrm, y.xfrm)]

\* impl BitOr for Attributes
AttrOr(x, y) ==
    [flags |-> BitOr(x.flags, y.flags), xfrm |-> BitOr(x.xfrm, y.xfrm)]

\* impl BitXor for Attributes
AttrXor(x, y) ==
    [flags |-> BitXor(x.flags, y.flags), xfrm |-> BitXor(x.xfrm, y.xfrm)]

RECURSIVE LeBytes(_, _)
\* the n bytes of an unsigned integer in memory (x86_64: little-endian)
LeBytes(v, n) ==
    IF n = 0 THEN <<>> ELSE <<v % 256>> \o LeBytes(v \div 256, n - 1)

RECURSIVE SumPow2(_)
SumPow2(S) ==
    IF S = {} THEN 0
    ELSE LET i == CHOOSE x \in S : TRUE IN Pow2(i) + SumPow2(S \ {i})

\* the 8 bytes of a u64 bit pattern in memory (x86_64: little-endian): byte k
\* holds the bits 8k .. 8k+7
PatternBytes(x) ==
    [k \in 1..8 |->
        SumPow2({i - 8 * (k - 1) : i \in {j \in x : (j \div 8) = k - 1}})]

\* addresses an Attributes value can be stored at (multiples of its alignment)
AddrDom == {65536, 65540, 131072}

\* every value a byte can have
AnyByte == 0..255

\* a byte of the Vec the program determines: it has this one value
Known(v) == {v}

\* to_vec: from_raw_parts(&self as *const _ as *const u8, size_of::<Self>())
\* `self` is a reference, so `&self` is the address of the local that holds
\* it: the slice starts with the 8 bytes of the reference (the address of the
\* value) and runs on into the memory behind that local, a read outside the
\* object. The program does not determine what is there: builds of the same
\* source give the slice length, 0, a stack address.
\* The result gives, for each byte of the Vec, the set of the values it can
\* have: one value for the bytes of the reference, every value for the bytes
\* behind it.
ToVec(ptr) ==
    [i \in 1..SizeOf(AttributesDecl) |->
        IF i <= 8 THEN Known(LeBytes(ptr, 8)[i]) ELSE AnyByte]

InitAttr ==
    /\ a \in {New(f, x) : f \in FlagsDom \cup FlagsUndefinedDom,
                            x \in XfrmDom \cup XfrmUndefinedDom}
    /\ b \in {New(f, x) : f \in FlagsDom, x \in XfrmDom}
    /\ op = "new"
    /\ res = a
    /\ nots = 0
    /\ complement \in Complements
    /\ addr = 0
    /\ bytes = <<>>
    /\ VerifyIdle
    /\ LayoutIdle

\* !x, applied to the value at hand
ApplyNot ==
    /\ op \in {"new", "not"}
    /\ nots < MaxNots
    /\ res' = AttrNot(res)
    /\ nots' = nots + 1
    /\ op' = "not"
    /\ UNCHANGED <<a, b, complement, addr, bytes, verifyVars, layoutVars>>

\* a & b
ApplyAnd ==
    /\ op = "new"
    /\ res' = AttrAnd(a, b)
    /\ op' = "and"
    /\ UNCHANGED <<a, b, nots, complement, addr, bytes, verifyVars, layoutVars>>

\* a | b
ApplyOr ==
    /\ op = "new"
    /\ res' = AttrOr(a, b)
    /\ op' = "or"
    /\ UNCHANGED <<a, b, nots, complement, addr, bytes, verifyVars, layoutVars>>

\* a ^ b
ApplyXor ==
    /\ op = "new"
    /\ res' = AttrXor(a, b)
    /\ op' = "xor"
    /\ UNCHANGED <<a, b, nots, complement, addr, bytes, verifyVars, layoutVars>>

\* a.to_vec(), a stored at some address
ApplyToVec ==
    /\ op = "new"
    /\ \E p \in AddrDom :
          /\ addr' = p
          /\ bytes' = ToVec(p)
    /\ op' = "to_vec"
    /\ UNCHANGED <<a, b, res, nots, complement, verifyVars, layoutVars>>

NextAttr ==
    \/ ApplyNot
    \/ ApplyAnd
    \/ ApplyOr
    \/ ApplyXor
    \/ ApplyToVec

SpecAttr == InitAttr /\ [][NextAttr]_vars

-----------------------------------------------------------------------------
(* C6 *)

\* C6: to_vec returns 16 bytes, the 8 bytes of the flags bit pattern followed
\* by the 8 bytes of the xfrm bit pattern, depending on the value alone.
C6_ToVecIsTheRepresentation ==
    op = "to_vec" =>
        /\ Len(bytes) = 16
        /\ \A i \in 1..Len(bytes) :
              bytes[i] = Known((PatternBytes(a.flags) \o PatternBytes(a.xfrm))[i])

-----------------------------------------------------------------------------
(* C8 *)

\* 1 when bit i of the pattern is set, else 0
Bit(x, i) == IF i \in x THEN 1 ELSE 0

\* a has only defined bits in flags and in xfrm
DefinedOnly(x) == OnlyBits(x.flags, FlagsBits) /\ OnlyBits(x.xfrm, XfrmBits)

\* the bits of a pattern that no flag defines are all clear or all set
UndefinedUniform(x, defined) ==
    (x \ defined) \in {{}, U64Bits \ defined}

\* C8: for Attributes made of defined bits, !!a = a, and !, &, | and ^ act on
\* flags and on xfrm separately: each bit of the result's flags comes from the
\* same bit of the operands' flags, each bit of its xfrm from the same bit of
\* the operands' xfrm. For ! this is stated on the defined bits, which is
\* where both complements agree; the bits no flag defines are the same in
\* every result, whatever the other component holds.
C8_BitwiseComponentwise ==
    /\ (op = "not" /\ nots % 2 = 0 /\ DefinedOnly(a)) => res = a
    /\ (op = "not" /\ nots % 2 = 1 /\ DefinedOnly(a)) =>
          /\ \A i \in FlagsBits : Bit(res.flags, i) = 1 - Bit(a.flags, i)
          /\ \A i \in XfrmBits : Bit(res.xfrm, i) = 1 - Bit(a.xfrm, i)
          /\ UndefinedUniform(res.flags, FlagsBits)
          /\ UndefinedUniform(res.xfrm, XfrmBits)
    /\ op = "and" =>
          \A i \in U64Bits :
             /\ Bit(res.flags, i) = Bit(a.flags, i) * Bit(b.flags, i)
             /\ Bit(res.xfrm, i) = Bit(a.xfrm, i) * Bit(b.xfrm, i)
    /\ op = "or" =>
          \A i \in U64Bits :
             /\ Bit(res.flags, i) = Max(Bit(a.flags, i), Bit(b.flags, i))
             /\ Bit(res.xfrm, i) = Max(Bit(a.xfrm, i), Bit(b.xfrm, i))
    /\ op = "xor" =>
          \A i \in U64Bits :
             /\ Bit(res.flags, i) = (Bit(a.flags, i) + Bit(b.flags, i)) % 2
             /\ Bit(res.xfrm, i) = (Bit(a.xfrm, i) + Bit(b.xfrm, i)) % 2
    /\ res.flags \subseteq U64Bits /\ res.xfrm \subseteq U64Bits

\* a value with flags and xfrm bits set, negated twice by a ! that stays
\* within the defined flags
C8_Witness ==
    /\ op = "not"
    /\ nots = 2
    /\ complement = "defined"
    /\ a.flags = FlagsDefault
    /\ a.xfrm = {0, 9}

\* the statement of C8 on double negation with the condition on the bits left
\* out: it does not hold, a ! that stays within the defined flags drops the
\* other bits (a.xfrm = {0, 1, 8} comes back as {0, 1})
C8_DoubleNegationOfAnyValue == (op = "not" /\ nots = 2) => res = a

====
